---- MODULE Spec2Model ----
(***************************************************************************)
(* GatherOperation (motion/operations/gather.py): grouping of chunk        *)
(* records by document, ordering inside each group, and rendering of every *)
(* chunk with its peripheral context.                                      *)
(*                                                                         *)
(* Python values are modelled as follows.  A str is a sequence of          *)
(* one-character strings, so that len(), concatenation and substring       *)
(* search are computed.  A dict is a function whose DOMAIN is its key set. *)
(* Objects that Python shares by reference (the chunk dicts) live in heap  *)
(* and are named by integer references.  Loop indices are 0-based as in    *)
(* the source; sequences are 1-based, so chunks[i] is written chunks[i+1]. *)
(***************************************************************************)
EXTENDS Integers, Sequences, FiniteSets, TLC

VARIABLES config, input_data, heap, pc, error, grouped_chunks, results, cost,
          item_idx, group_idx, chunk_idx, args, processed_parts,
          combined_parts, formatted_chunk

vars == <<config, input_data, heap, pc, error, grouped_chunks, results, cost,
          item_idx, group_idx, chunk_idx, args, processed_parts,
          combined_parts, formatted_chunk>>

(***************************************************************************)
(* Bounds of the model.                                                    *)
(***************************************************************************)
MaxRecords == 3
MaxNeighbors == 3
MaxCount == 3
MaxGroup == 3

(***************************************************************************)
(* String literals of the source.                                          *)
(***************************************************************************)
PREVIOUS_HEADER ==
    <<"-", "-", "-", " ", "P", "r", "e", "v", "i", "o", "u", "s", " ", "C", "o", "n", "t", "e", "x", "t", " ", "-", "-", "-">>

PREVIOUS_FOOTER ==
    <<"-", "-", "-", " ", "E", "n", "d", " ", "P", "r", "e", "v", "i", "o", "u", "s", " ", "C", "o", "n", "t", "e", "x", "t", " ", "-", "-", "-", "\n">>

NEXT_HEADER ==
    <<"\n", "-", "-", "-", " ", "N", "e", "x", "t", " ", "C", "o", "n", "t", "e", "x", "t", " ", "-", "-", "-">>

NEXT_FOOTER ==
    <<"-", "-", "-", " ", "E", "n", "d", " ", "N", "e", "x", "t", " ", "C", "o", "n", "t", "e", "x", "t", " ", "-", "-", "-">>

DEFAULT_MAIN_CHUNK_START ==
    <<"-", "-", "-", " ", "B", "e", "g", "i", "n", " ", "M", "a", "i", "n", " ", "C", "h", "u", "n", "k", " ", "-", "-", "-">>

DEFAULT_MAIN_CHUNK_END ==
    <<"-", "-", "-", " ", "E", "n", "d", " ", "M", "a", "i", "n", " ", "C", "h", "u", "n", "k", " ", "-", "-", "-">>

SKIP_PREFIX ==
    <<"[", ".", ".", ".", " ">>

SKIP_SUFFIX ==
    <<" ", "c", "h", "a", "r", "a", "c", "t", "e", "r", "s", " ", "s", "k", "i", "p", "p", "e", "d", " ", ".", ".", ".", "]">>

CHUNK_PREFIX ==
    <<"[", "C", "h", "u", "n", "k", " ">>

SUMMARY_SUFFIX ==
    <<" ", "(", "S", "u", "m", "m", "a", "r", "y", ")">>

NEWLINE == <<"\n">>

(***************************************************************************)
(* Python built-ins used by the source.                                    *)
(***************************************************************************)
EmptyDict == [x \in {} |-> x]

\* dict.get(key, default)
Get(d, key, default) == IF key \in DOMAIN d THEN d[key] ELSE default

\* d[key] = value on a copy of d
SetItem(d, key, value) ==
    [x \in DOMAIN d \cup {key} |-> IF x = key THEN value ELSE d[x]]

\* list(reversed(s))
reversed(s) == [j \in 1..Len(s) |-> s[Len(s) + 1 - j]]

DigitChar(d) ==
    CASE d = 0 -> "0" [] d = 1 -> "1" [] d = 2 -> "2" [] d = 3 -> "3"
      [] d = 4 -> "4" [] d = 5 -> "5" [] d = 6 -> "6" [] d = 7 -> "7"
      [] d = 8 -> "8" [] d = 9 -> "9"

RECURSIVE NatToStr(_)
NatToStr(n) ==
    IF n < 10 THEN <<DigitChar(n)>>
    ELSE NatToStr(n \div 10) \o <<DigitChar(n % 10)>>

\* str(n) of an int, as an f-string formats it
IntToStr(n) == IF n < 0 THEN <<"-">> \o NatToStr(0 - n) ELSE NatToStr(n)

\* "\n".join(parts)
RECURSIVE Join(_)
Join(parts) ==
    IF Len(parts) = 0 THEN <<>>
    ELSE IF Len(parts) = 1 THEN parts[1]
    ELSE parts[1] \o NEWLINE \o Join(Tail(parts))

(***************************************************************************)
(* process_peripheral_chunks                                               *)
(***************************************************************************)
\* f"[... {skip_char_count} characters skipped ...]"
SkipLine(skip_char_count) ==
    SKIP_PREFIX \o IntToStr(skip_char_count) \o SKIP_SUFFIX

\* f"[Chunk {chunk[order_key]}{summary_suffix}] {chunk[section_content_key]}"
ChunkLine(chunk, order_key, section_content_key, content_key) ==
    LET is_summary == section_content_key # content_key
        summary_suffix == IF is_summary THEN SUMMARY_SUFFIX ELSE <<>>
    IN  CHUNK_PREFIX \o IntToStr(chunk[order_key]) \o summary_suffix
            \o <<"]", " ">> \o chunk[section_content_key]

\* variant: the tail test is off by one
SectionTailOffByOne(i, head_count, tail_count, total_chunks, dconfig) ==
    IF i < head_count THEN "head"
    ELSE IF i > total_chunks - tail_count THEN "tail"
    ELSE IF "middle" \in DOMAIN dconfig THEN "middle"
    ELSE "skip"

\* the if/elif chain choosing the section of index i; "skip" is the else branch
Section(i, head_count, tail_count, total_chunks, dconfig) ==
    IF i < head_count THEN "head"
    ELSE IF i >= total_chunks - tail_count THEN "tail"
    ELSE IF "middle" \in DOMAIN dconfig THEN "middle"
    ELSE "skip"

\* variant: only one chunk is counted
skipped_chars_one(chunks, content_key) ==
    IF Len(chunks) = 0 THEN 0 ELSE Len(Head(chunks)[content_key])

\* sum(len(c[content_key]) for c in chunks)
RECURSIVE skipped_chars(_, _)
skipped_chars(chunks, content_key) ==
    IF Len(chunks) = 0 THEN 0
    ELSE Len(Head(chunks)[content_key]) + skipped_chars(Tail(chunks), content_key)

\* the locals the loop carries
LoopInit == [processed_parts |-> <<>>, in_skip |-> FALSE, skip_char_count |-> 0]

\* variant: the skip state is not reset after the placeholder
FlushNoReset(st) ==
    IF st.in_skip
    THEN [st EXCEPT !.processed_parts = Append(@, SkipLine(st.skip_char_count))]
    ELSE st

\* "if in_skip:" before a chunk line: the pending placeholder is appended and
\* the skip state reset
Flush(st) ==
    IF st.in_skip
    THEN [processed_parts |-> Append(st.processed_parts, SkipLine(st.skip_char_count)),
          in_skip |-> FALSE,
          skip_char_count |-> 0]
    ELSE st

\* one iteration of "for i, chunk in enumerate(chunks)".  The counts are
\* integers, on which int() is the identity; included_chunks is written and
\* never read, and is left out.
LoopBody(st, i, chunks, dconfig, content_key, order_key) ==
    LET chunk == chunks[i + 1]
        total_chunks == Len(chunks)
        head_count == Get(Get(dconfig, "head", EmptyDict), "count", 0)
        tail_count == Get(Get(dconfig, "tail", EmptyDict), "count", 0)
        section == Section(i, head_count, tail_count, total_chunks, dconfig)
    IN  IF section = "skip"
        THEN [st EXCEPT !.skip_char_count = @ + skipped_chars(chunks, content_key),
                        !.in_skip = TRUE]
        ELSE LET section_config == Get(dconfig, section, EmptyDict)
                 section_content_key == Get(section_config, "content_key", content_key)
             IN  [Flush(st) EXCEPT !.processed_parts =
                      Append(@, ChunkLine(chunk, order_key, section_content_key,
                                          content_key))]

RECURSIVE Loop(_, _, _, _, _, _)
Loop(st, i, chunks, dconfig, content_key, order_key) ==
    IF i >= Len(chunks) THEN st
    ELSE Loop(LoopBody(st, i, chunks, dconfig, content_key, order_key),
              i + 1, chunks, dconfig, content_key, order_key)

\* the scan order: chunks = list(reversed(chunks)) when reverse
ScanOrder(chunks, reverse) == IF reverse THEN reversed(chunks) ELSE chunks

\* variant: the lines are returned in scan order
NoFinalReverse(parts, reverse) == parts

\* the final "if reverse: processed_parts = list(reversed(processed_parts))"
PresentationOrder(parts, reverse) == IF reverse THEN reversed(parts) ELSE parts

process_peripheral_chunks(chunks, dconfig, content_key, order_key, reverse) ==
    LET scanned == ScanOrder(chunks, reverse)
        st == Loop(LoopInit, 0, scanned, dconfig, content_key, order_key)
        parts == IF st.in_skip
                 THEN Append(st.processed_parts, SkipLine(st.skip_char_count))
                 ELSE st.processed_parts
    IN  PresentationOrder(parts, reverse)

(***************************************************************************)
(* format_chunk_with_context                                               *)
(***************************************************************************)
\* variant: the markers are swapped
MainPartMarkersSwapped(start_marker, content, end_marker) ==
    end_marker \o NEWLINE \o content \o NEWLINE \o start_marker

\* f"{main_chunk_start}\n{main_chunk[content_key]}\n{main_chunk_end}"
MainPart(start_marker, content, end_marker) ==
    start_marker \o NEWLINE \o content \o NEWLINE \o end_marker

\* chunks[:current_index]
PreviousChunks(chunks, current_index) == SubSeq(chunks, 1, current_index)

\* chunks[current_index + 1:]
NextChunks(chunks, current_index) == SubSeq(chunks, current_index + 2, Len(chunks))

\* variant: the previous direction is scanned like the next one
PreviousNotReversed == FALSE

\* the reverse argument of the call for the previous direction
PreviousReverse == TRUE

\* the list combined_parts at the return statement
CombinedParts(chunks, current_index, peripheral_config, content_key, order_key, start_marker, end_marker) ==
    <<PREVIOUS_HEADER>>
        \o process_peripheral_chunks(PreviousChunks(chunks, current_index),
                                     Get(peripheral_config, "previous", EmptyDict),
                                     content_key, order_key, PreviousReverse)
        \o <<PREVIOUS_FOOTER>>
        \o <<MainPart(start_marker, chunks[current_index + 1][content_key],
                      end_marker)>>
        \o <<NEXT_HEADER>>
        \o process_peripheral_chunks(NextChunks(chunks, current_index),
                                     Get(peripheral_config, "next", EmptyDict),
                                     content_key, order_key, FALSE)
        \o <<NEXT_FOOTER>>

format_chunk_with_context(chunks, current_index, peripheral_config, content_key, order_key, start_marker, end_marker) ==
    Join(CombinedParts(chunks, current_index, peripheral_config, content_key,
                       order_key, start_marker, end_marker))

(***************************************************************************)
(* syntax_check.  A marker value is tagged with its Python type:           *)
(* [type |-> "str", val |-> <<...>>] or [type |-> "int", val |-> n].       *)
(***************************************************************************)
Str(s) == [type |-> "str", val |-> s]

\* the nested loops over direction and section: some declared head or tail
\* section has no "count"
MissingCount(peripheral_config) ==
    \E direction \in {"previous", "next"} :
        /\ direction \in DOMAIN peripheral_config
        /\ \E section \in {"head", "middle", "tail"} :
               /\ section \in DOMAIN peripheral_config[direction]
               /\ section # "middle"
               /\ "count" \notin DOMAIN peripheral_config[direction][section]

\* variant: the loops over direction and section are missing
syntax_check_no_count(cfg) ==
    IF \E key \in {"content_key", "doc_id_key", "order_key"} : key \notin DOMAIN cfg
    THEN "ValueError"
    ELSE IF "peripheral_chunks" \notin DOMAIN cfg THEN "ValueError"
    ELSE IF "main_chunk_start" \in DOMAIN cfg /\ cfg["main_chunk_start"].type # "str"
    THEN "TypeError"
    ELSE IF "main_chunk_end" \in DOMAIN cfg /\ cfg["main_chunk_end"].type # "str"
    THEN "TypeError"
    ELSE "ok"

\* "ok" when the method returns, else the name of the exception it raises
syntax_check(cfg) ==
    IF \E key \in {"content_key", "doc_id_key", "order_key"} : key \notin DOMAIN cfg
    THEN "ValueError"
    ELSE IF "peripheral_chunks" \notin DOMAIN cfg THEN "ValueError"
    ELSE IF MissingCount(cfg["peripheral_chunks"]) THEN "ValueError"
    ELSE IF "main_chunk_start" \in DOMAIN cfg /\ cfg["main_chunk_start"].type # "str"
    THEN "TypeError"
    ELSE IF "main_chunk_end" \in DOMAIN cfg /\ cfg["main_chunk_end"].type # "str"
    THEN "TypeError"
    ELSE "ok"

(***************************************************************************)
(* execute                                                                 *)
(***************************************************************************)
\* the key of the derived field, f"{content_key}_formatted"
FormattedKey(content_key) == content_key \o "_formatted"

\* variant: result = chunk, no copy
AliasTarget(chunk, fresh) == chunk

\* the object that receives the derived field: result = chunk.copy() is a new
\* dict, allocated at the fresh reference
CopyTarget(chunk, fresh) == fresh

\* position of doc_id among the keys of grouped_chunks, 0 when absent
GroupIndex(groups, doc_id) ==
    IF \E n \in 1..Len(groups) : groups[n].doc_id = doc_id
    THEN CHOOSE n \in 1..Len(groups) : groups[n].doc_id = doc_id
    ELSE 0

\* variant: an existing group's list is replaced instead of extended
AddToGroupReplace(groups, doc_id, item) ==
    LET n == GroupIndex(groups, doc_id)
    IN  IF n = 0
        THEN Append(groups, [doc_id |-> doc_id, chunks |-> <<item>>])
        ELSE [groups EXCEPT ![n].chunks = <<item>>]

\* the body of "for item in input_data": a new key is appended to the dict
\* (dicts keep insertion order), the item is appended to its list
AddToGroup(groups, doc_id, item) ==
    LET n == GroupIndex(groups, doc_id)
    IN  IF n = 0
        THEN Append(groups, [doc_id |-> doc_id, chunks |-> <<item>>])
        ELSE [groups EXCEPT ![n].chunks = Append(@, item)]

\* list.sort(key=...) is stable: an element goes after every element whose key
\* is not greater than its own
RECURSIVE InsertByKey(_, _, _, _)
InsertByKey(sorted, x, h, order_key) ==
    IF Len(sorted) = 0 THEN <<x>>
    ELSE IF h[sorted[Len(sorted)]][order_key] <= h[x][order_key]
         THEN Append(sorted, x)
         ELSE Append(InsertByKey(SubSeq(sorted, 1, Len(sorted) - 1), x, h, order_key),
                     sorted[Len(sorted)])

RECURSIVE SortFrom(_, _, _, _)
SortFrom(sorted, rest, h, order_key) ==
    IF Len(rest) = 0 THEN sorted
    ELSE SortFrom(InsertByKey(sorted, Head(rest), h, order_key), Tail(rest),
                  h, order_key)

\* variant: a sort that reverses equal keys
sort_reversing_ties(chunks, h, order_key) ==
    SortFrom(<<>>, reversed(chunks), h, order_key)

\* chunks.sort(key=lambda x: x[order_key])
sort(chunks, h, order_key) == SortFrom(<<>>, chunks, h, order_key)

\* the dicts a list of references names
Deref(refs, h) == [n \in 1..Len(refs) |-> h[refs[n]]]

\* self.config.get("main_chunk_start", "--- Begin Main Chunk ---")
main_chunk_start(cfg) == Get(cfg, "main_chunk_start", Str(DEFAULT_MAIN_CHUNK_START)).val

\* self.config.get("main_chunk_end", "--- End Main Chunk ---")
main_chunk_end(cfg) == Get(cfg, "main_chunk_end", Str(DEFAULT_MAIN_CHUNK_END)).val

(***************************************************************************)
(* Inputs.                                                                 *)
(***************************************************************************)
Docs == {"d1", "d2"}
OrderValues == {2, 10}
Texts == {<<"a">>, <<"S", "S">>}
Counts == 0..MaxCount

\* chunk records carrying every configured key, and an extra field
Chunks == [doc : Docs, ord : OrderValues, text : Texts, summary : {<<"z">>}]

\* records lacking doc_id_key or order_key
NoDocRecord == [ord |-> 2, text |-> <<"a">>, summary |-> <<"z">>]
NoOrdRecord == [doc |-> "d1", text |-> <<"a">>, summary |-> <<"z">>]

\* a record that already has the derived field
PreFormatted ==
    [doc |-> "d2", ord |-> 2, text |-> <<"a">>, summary |-> <<"z">>,
     text_formatted |-> <<"o", "l", "d">>]

Records == Chunks \cup {NoDocRecord, NoOrdRecord, PreFormatted}

SeqsUpTo(S, n) == UNION {[1..m -> S] : m \in 0..n}

\* a head or tail section: absent (<<>>), or present with a count and
\* possibly a content_key override
CountedSections ==
    {<<>>} \cup {<<("count" :> c)>> : c \in Counts}
           \cup {<<("count" :> c) @@ ("content_key" :> "summary")>> : c \in Counts}

MiddleSections ==
    {<<>>, <<EmptyDict>>, <<("content_key" :> "summary")>>}

Opt(key, section) == IF Len(section) = 0 THEN EmptyDict ELSE (key :> section[1])

\* the configurations of one direction that pass syntax_check
DirectionConfigs ==
    {Opt("head", h) @@ Opt("middle", m) @@ Opt("tail", t) :
        h \in CountedSections, m \in MiddleSections, t \in CountedSections}

HeadOnly(c) == ("head" :> ("count" :> c))

ScenarioA == ("previous" :> HeadOnly(1)) @@ ("next" :> HeadOnly(1))

HeadTailMiddle ==
    ("previous" :> (("head" :> ("count" :> 1))
                    @@ ("tail" :> (("count" :> 1) @@ ("content_key" :> "summary")))))
        @@ ("next" :> ("middle" :> EmptyDict))

BaseConfig(peripheral) ==
    ("content_key" :> "text") @@ ("doc_id_key" :> "doc") @@ ("order_key" :> "ord")
        @@ ("peripheral_chunks" :> peripheral)

Without(d, key) == [x \in DOMAIN d \ {key} |-> d[x]]

CustomMarkers ==
    ("main_chunk_start" :> Str(<<"S">>)) @@ ("main_chunk_end" :> Str(<<"E">>))

ValidConfigs ==
    {BaseConfig(p) : p \in {EmptyDict, ScenarioA, HeadTailMiddle}}
        \cup {BaseConfig(ScenarioA) @@ CustomMarkers}

InvalidConfigs ==
    {Without(BaseConfig(ScenarioA), key) :
        key \in {"content_key", "doc_id_key", "order_key", "peripheral_chunks"}}
        \cup {BaseConfig("previous" :> ("head" :> EmptyDict)),
              BaseConfig("next" :> ("tail" :> ("content_key" :> "summary"))),
              BaseConfig(("previous" :> HeadOnly(1))
                         @@ ("next" :> (("head" :> ("count" :> 1))
                                        @@ ("tail" :> EmptyDict)))),
              BaseConfig(ScenarioA) @@ ("main_chunk_start" :> [type |-> "int", val |-> 7]),
              BaseConfig(ScenarioA) @@ ("main_chunk_end" :> [type |-> "int", val |-> 7])}

Configs == ValidConfigs \cup InvalidConfigs

NoArgs == EmptyDict

(***************************************************************************)
(* The stage: construction, then execute.                                  *)
(***************************************************************************)
Init ==
    /\ config \in Configs
    /\ heap \in SeqsUpTo(Records, MaxRecords)
    /\ input_data = [n \in 1..Len(heap) |-> n]
    /\ pc = "new"
    /\ error = "none"
    /\ grouped_chunks = <<>>
    /\ results = <<>>
    /\ cost = -1
    /\ item_idx = 0
    /\ group_idx = 0
    /\ chunk_idx = 0
    /\ args = NoArgs
    /\ processed_parts = <<>>
    /\ combined_parts = <<>>
    /\ formatted_chunk = <<>>

Harness == <<args, processed_parts, combined_parts, formatted_chunk>>

\* BaseOperation.__init__: the operation is validated when it is built, so
\* execute exists only for a configuration syntax_check accepts
Construct ==
    /\ pc = "new"
    /\ LET outcome == syntax_check(config)
       IN  IF outcome = "ok"
           THEN pc' = "ready" /\ error' = error
           ELSE pc' = "error" /\ error' = outcome
    /\ UNCHANGED <<config, input_data, heap, grouped_chunks, results, cost,
                   item_idx, group_idx, chunk_idx, Harness>>

\* execute up to the grouping loop: results = [], cost = 0.0, grouped_chunks = {}
ExecuteBegin ==
    /\ pc = "ready"
    /\ results' = <<>>
    /\ cost' = 0
    /\ grouped_chunks' = <<>>
    /\ item_idx' = 0
    /\ group_idx' = 0
    /\ chunk_idx' = 0
    /\ pc' = IF Len(input_data) = 0 THEN "sort" ELSE "group"
    /\ UNCHANGED <<config, input_data, heap, error, Harness>>

\* one iteration of "for item in input_data"
GroupItem ==
    /\ pc = "group"
    /\ item_idx < Len(input_data)
    /\ LET item == input_data[item_idx + 1]
           doc_id_key == config["doc_id_key"]
       IN  IF doc_id_key \notin DOMAIN heap[item]
           THEN /\ pc' = "error"
                /\ error' = "KeyError"
                /\ UNCHANGED <<grouped_chunks, item_idx>>
           ELSE /\ grouped_chunks' =
                       AddToGroup(grouped_chunks, heap[item][doc_id_key], item)
                /\ item_idx' = item_idx + 1
                /\ pc' = IF item_idx + 1 = Len(input_data) THEN "sort" ELSE "group"
                /\ error' = error
    /\ UNCHANGED <<config, input_data, heap, results, cost, group_idx, chunk_idx,
                   Harness>>

\* the head of one iteration of "for doc_id, chunks in grouped_chunks.items()":
\* the group's list is sorted in place
SortGroup ==
    /\ pc = "sort"
    /\ group_idx < Len(grouped_chunks)
    /\ LET chunks == grouped_chunks[group_idx + 1].chunks
           order_key == config["order_key"]
       IN  IF \E n \in 1..Len(chunks) : order_key \notin DOMAIN heap[chunks[n]]
           THEN /\ pc' = "error"
                /\ error' = "KeyError"
                /\ UNCHANGED <<grouped_chunks, chunk_idx>>
           ELSE /\ grouped_chunks' =
                       [grouped_chunks EXCEPT ![group_idx + 1].chunks =
                            sort(chunks, heap, order_key)]
                /\ chunk_idx' = 0
                /\ pc' = "chunks"
                /\ error' = error
    /\ UNCHANGED <<config, input_data, heap, results, cost, item_idx, group_idx,
                   Harness>>

\* one iteration of "for i, chunk in enumerate(chunks)"
ProcessChunk ==
    /\ pc = "chunks"
    /\ LET chunks == grouped_chunks[group_idx + 1].chunks
           chunk == chunks[chunk_idx + 1]
           content_key == config["content_key"]
           formatted ==
               format_chunk_with_context(Deref(chunks, heap), chunk_idx,
                                         config["peripheral_chunks"], content_key,
                                         config["order_key"], main_chunk_start(config),
                                         main_chunk_end(config))
           \* the copy is allocated at the next free reference
           result == CopyTarget(chunk, Len(heap) + 1)
           copied == IF result > Len(heap) THEN Append(heap, heap[chunk]) ELSE heap
       IN  /\ heap' = [copied EXCEPT ![result] =
                           SetItem(@, FormattedKey(content_key), formatted)]
           /\ results' = Append(results, result)
           /\ IF chunk_idx + 1 = Len(chunks)
              THEN pc' = "sort" /\ group_idx' = group_idx + 1 /\ chunk_idx' = chunk_idx
              ELSE pc' = "chunks" /\ group_idx' = group_idx /\ chunk_idx' = chunk_idx + 1
    /\ UNCHANGED <<config, input_data, error, grouped_chunks, cost, item_idx, Harness>>

\* return results, cost
Return ==
    /\ pc = "sort"
    /\ group_idx = Len(grouped_chunks)
    /\ pc' = "done"
    /\ UNCHANGED <<config, input_data, heap, error, grouped_chunks, results, cost,
                   item_idx, group_idx, chunk_idx, Harness>>

Next == Construct \/ ExecuteBegin \/ GroupItem \/ SortGroup \/ ProcessChunk \/ Return

Spec == Init /\ [][Next]_vars

(***************************************************************************)
(* process_peripheral_chunks applied to every neighbor list and direction  *)
(* configuration within the bounds.                                        *)
(***************************************************************************)
\* a list as execute leaves it after sort(): ascending order_key
IsSorted(chunks) ==
    \A m, n \in 1..Len(chunks) : m < n => chunks[m].ord <= chunks[n].ord

OneDoc == {c \in Chunks : c.doc = "d1"}

NeighborLists == {l \in SeqsUpTo(OneDoc, MaxNeighbors) : IsSorted(l)}

InitWindow ==
    /\ args \in [chunks : NeighborLists, dconfig : DirectionConfigs, reverse : BOOLEAN]
    /\ pc = "call"
    /\ config = BaseConfig(EmptyDict)
    /\ heap = <<>>
    /\ input_data = <<>>
    /\ error = "none"
    /\ grouped_chunks = <<>>
    /\ results = <<>>
    /\ cost = -1
    /\ item_idx = 0
    /\ group_idx = 0
    /\ chunk_idx = 0
    /\ processed_parts = <<>>
    /\ combined_parts = <<>>
    /\ formatted_chunk = <<>>

Stage == <<config, input_data, heap, error, grouped_chunks, results, cost,
           item_idx, group_idx, chunk_idx>>

CallProcessPeripheralChunks ==
    /\ pc = "call"
    /\ processed_parts' =
           process_peripheral_chunks(args.chunks, args.dconfig, config["content_key"],
                                     config["order_key"], args.reverse)
    /\ pc' = "returned"
    /\ UNCHANGED <<Stage, args, combined_parts, formatted_chunk>>

NextWindow == CallProcessPeripheralChunks

WindowSpec == InitWindow /\ [][NextWindow]_vars

(***************************************************************************)
(* format_chunk_with_context applied to every sorted group, index, and     *)
(* marker pair within the bounds.                                          *)
(***************************************************************************)
Groups == {l \in SeqsUpTo(OneDoc, MaxGroup) : Len(l) > 0 /\ IsSorted(l)}

\* the same configuration for both directions
BothDirections == {("previous" :> d) @@ ("next" :> d) : d \in DirectionConfigs}

\* one direction or none configured
FewPeripherals == {EmptyDict, ScenarioA, HeadTailMiddle, ("previous" :> HeadOnly(1))}

MarkerPairs ==
    {<<DEFAULT_MAIN_CHUNK_START, DEFAULT_MAIN_CHUNK_END>>,
     <<<<"S">>, <<"E">>>>,
     <<<<"-", "-", "-">>, <<"-", "-", "-">>>>}

\* every configuration with the default markers, a few with every marker pair
FormatInputs ==
    {<<p, <<DEFAULT_MAIN_CHUNK_START, DEFAULT_MAIN_CHUNK_END>>>> : p \in BothDirections}
        \cup (FewPeripherals \X MarkerPairs)

InitFormat ==
    /\ \E chunks \in Groups, inp \in FormatInputs :
           args \in [chunks : {chunks},
                     current_index : 0..(Len(chunks) - 1),
                     peripheral_config : {inp[1]},
                     main_chunk_start : {inp[2][1]},
                     main_chunk_end : {inp[2][2]}]
    /\ pc = "call"
    /\ config = BaseConfig(EmptyDict)
    /\ heap = <<>>
    /\ input_data = <<>>
    /\ error = "none"
    /\ grouped_chunks = <<>>
    /\ results = <<>>
    /\ cost = -1
    /\ item_idx = 0
    /\ group_idx = 0
    /\ chunk_idx = 0
    /\ processed_parts = <<>>
    /\ combined_parts = <<>>
    /\ formatted_chunk = <<>>

CallFormatChunkWithContext ==
    /\ pc = "call"
    /\ combined_parts' =
           CombinedParts(args.chunks, args.current_index, args.peripheral_config,
                         config["content_key"], config["order_key"],
                         args.main_chunk_start, args.main_chunk_end)
    /\ formatted_chunk' =
           format_chunk_with_context(args.chunks, args.current_index,
                                     args.peripheral_config, config["content_key"],
                                     config["order_key"], args.main_chunk_start,
                                     args.main_chunk_end)
    /\ pc' = "returned"
    /\ UNCHANGED <<Stage, args, processed_parts>>

NextFormat == CallFormatChunkWithContext

FormatSpec == InitFormat /\ [][NextFormat]_vars

(***************************************************************************)
(* Vocabulary of the properties.  Positions p are 1-based positions in the *)
(* neighbor list as passed (document order); scan indices i are 0-based    *)
(* indices in the order the loop visits the neighbors.                     *)
(***************************************************************************)
ConfiguredCount(dconfig, section) ==
    IF section \in DOMAIN dconfig /\ "count" \in DOMAIN dconfig[section]
    THEN dconfig[section]["count"]
    ELSE 0

\* the bucket of scan index i among total neighbors
Bucket(i, total, dconfig) ==
    IF i < ConfiguredCount(dconfig, "head") THEN "head"
    ELSE IF i >= total - ConfiguredCount(dconfig, "tail") THEN "tail"
    ELSE IF "middle" \in DOMAIN dconfig THEN "middle"
    ELSE "skipped"

ScanIndex(p, total, reverse) == IF reverse THEN total - p ELSE p - 1

SkippedPositions(total, dconfig, reverse) ==
    {p \in 1..total : Bucket(ScanIndex(p, total, reverse), total, dconfig) = "skipped"}

IsPlaceholder(line) ==
    Len(line) >= Len(SKIP_PREFIX) /\ SubSeq(line, 1, Len(SKIP_PREFIX)) = SKIP_PREFIX

Placeholders(parts) == {n \in 1..Len(parts) : IsPlaceholder(parts[n])}

\* the lines that can render a chunk: its label and the value of one of its
\* text fields
ChunkLines(chunk) ==
    {ChunkLine(chunk, "ord", key, "text") : key \in {"text", "summary"}}

\* the line that renders a chunk from the bucket it falls in
BucketLine(chunk, bucket, dconfig) ==
    ChunkLine(chunk, "ord",
              IF "content_key" \in DOMAIN dconfig[bucket]
              THEN dconfig[bucket]["content_key"] ELSE "text",
              "text")

\* total length of the text of the neighbors at positions lo..hi
RECURSIVE TextLen(_, _, _)
TextLen(chunks, lo, hi) ==
    IF lo > hi THEN 0 ELSE Len(chunks[lo].text) + TextLen(chunks, lo + 1, hi)

\* the neighbors from position p onward in scan order
OnwardLen(chunks, p, reverse) ==
    IF reverse THEN TextLen(chunks, 1, p) ELSE TextLen(chunks, p, Len(chunks))

RECURSIVE SumOnward(_, _, _)
SumOnward(chunks, positions, reverse) ==
    IF positions = {} THEN 0
    ELSE LET p == CHOOSE x \in positions : TRUE
         IN  OnwardLen(chunks, p, reverse) + SumOnward(chunks, positions \ {p}, reverse)

WindowSkipped == SkippedPositions(Len(args.chunks), args.dconfig, args.reverse)

C6_WindowCompleteness ==
    (/\ pc = "returned"
     /\ ConfiguredCount(args.dconfig, "head") + ConfiguredCount(args.dconfig, "tail")
            >= Len(args.chunks))
        => /\ Placeholders(processed_parts) = {}
           /\ Len(processed_parts) = Len(args.chunks)
           /\ \A n \in 1..Len(args.chunks) :
                  processed_parts[n] \in ChunkLines(args.chunks[n])

\* head and tail together just cover three neighbors, neither alone does
C6_Witness ==
    /\ pc = "returned"
    /\ Len(args.chunks) = 3
    /\ "middle" \notin DOMAIN args.dconfig
    /\ ConfiguredCount(args.dconfig, "head") = 1
    /\ ConfiguredCount(args.dconfig, "tail") = 2
    /\ Len(processed_parts) = 3

(***************************************************************************)
(* C9.  Without a middle section the output holds exactly one placeholder  *)
(* when some neighbor is skipped; it holds none when no neighbor is        *)
(* skipped, and no line at all for an empty neighbor list; in scan order   *)
(* the placeholder comes before every chunk line emitted after the run.    *)
(***************************************************************************)
C9_OnePlaceholderPerRun ==
    pc = "returned" =>
        LET scan_out == IF args.reverse THEN reversed(processed_parts)
                        ELSE processed_parts
            total == Len(args.chunks)
            skipped == {i \in 0..(total - 1) : Bucket(i, total, args.dconfig) = "skipped"}
            before == {i \in 0..(total - 1) :
                          /\ i \notin skipped
                          /\ \E j \in skipped : i < j}
        IN  /\ ("middle" \notin DOMAIN args.dconfig /\ skipped # {})
                   => /\ Cardinality(Placeholders(scan_out)) = 1
                      /\ Placeholders(scan_out) = {Cardinality(before) + 1}
            /\ skipped = {} => Placeholders(scan_out) = {}
            /\ total = 0 => Len(processed_parts) = 0

\* a run of two skipped neighbors after one head chunk, previous direction
C9_Witness ==
    /\ pc = "returned"
    /\ args.reverse
    /\ "middle" \notin DOMAIN args.dconfig
    /\ Len(args.chunks) = 3
    /\ ConfiguredCount(args.dconfig, "head") = 1
    /\ ConfiguredCount(args.dconfig, "tail") = 0
    /\ Len(processed_parts) = 2
    /\ Placeholders(processed_parts) = {1}

(***************************************************************************)
(* C10.  Natural reading order, for reverse true and false: the chunk      *)
(* lines are in document order and the placeholder stands where the        *)
(* skipped neighbors are, after every rendered neighbor that precedes them *)
(* and before every rendered neighbor that follows them.                   *)
(***************************************************************************)
\* the positions that get a line: every rendered neighbor, and the first
\* skipped neighbor for the placeholder
Slots(total, skipped) ==
    {p \in 1..total : p \notin skipped \/ \A q \in skipped : p <= q}

\* the n-th smallest element of a set of positions
NthSlot(slots, n) ==
    CHOOSE p \in slots : Cardinality({q \in slots : q <= p}) = n

C10_ReadingOrder ==
    pc = "returned" =>
        LET total == Len(args.chunks)
            slots == Slots(total, WindowSkipped)
        IN  /\ Len(processed_parts) = Cardinality(slots)
            /\ \A n \in 1..Len(processed_parts) :
                   LET p == NthSlot(slots, n)
                   IN  IF p \in WindowSkipped
                       THEN IsPlaceholder(processed_parts[n])
                       ELSE processed_parts[n] \in ChunkLines(args.chunks[p])

\* previous direction, two distinguishable rendered neighbors around a skipped one
C10_Witness ==
    /\ pc = "returned"
    /\ args.reverse
    /\ Len(args.chunks) = 3
    /\ WindowSkipped = {2}
    /\ args.chunks[1] # args.chunks[3]
    /\ Len(processed_parts) = 3

(***************************************************************************)
(* Vocabulary of the properties of execute.                                *)
(***************************************************************************)
RequiredKeys == {"content_key", "doc_id_key", "order_key", "peripheral_chunks"}

\* the rules of the validator, as the specification lists them
ViolatesValidatorRules(cfg) ==
    \/ \E key \in RequiredKeys : key \notin DOMAIN cfg
    \/ /\ "peripheral_chunks" \in DOMAIN cfg
       /\ \E direction \in {"previous", "next"} \cap DOMAIN cfg["peripheral_chunks"] :
              \E section \in {"head", "tail"}
                                 \cap DOMAIN cfg["peripheral_chunks"][direction] :
                  "count" \notin DOMAIN cfg["peripheral_chunks"][direction][section]
    \/ \E marker \in {"main_chunk_start", "main_chunk_end"} \cap DOMAIN cfg :
           cfg[marker].type # "str"

InputRecord(n) == heap[input_data[n]]

OutputRecord(j) == heap[results[j]]

\* out has the fields and values of inp, and the derived field
EnrichmentOf(out, inp) ==
    /\ DOMAIN out = DOMAIN inp \cup {"text_formatted"}
    /\ \A field \in DOMAIN inp \ {"text_formatted"} : out[field] = inp[field]

Bijections(n) ==
    {f \in [1..n -> 1..n] : \A a, b \in 1..n : a # b => f[a] # f[b]}

\* position in the input of the first record of a document
FirstAppearance(doc) ==
    CHOOSE n \in 1..Len(input_data) :
        /\ InputRecord(n).doc = doc
        /\ \A m \in 1..(n - 1) : InputRecord(m).doc # doc

(***************************************************************************)
(* C1.  A configuration that violates the validator's rules ends in a      *)
(* configuration error before any record is processed: no record is        *)
(* grouped, no output record exists, and the stage never completes.        *)
(***************************************************************************)
C1_InvalidConfigNoOutput ==
    ViolatesValidatorRules(config) =>
        /\ pc \in {"new", "error"}
        /\ pc = "error" => error \in {"ValueError", "TypeError"}
        /\ grouped_chunks = <<>>
        /\ results = <<>>

\* a tail section without count, a non-empty input, the error raised
C1_Witness ==
    /\ pc = "error"
    /\ error = "ValueError"
    /\ Len(input_data) > 0
    /\ RequiredKeys \subseteq DOMAIN config
    /\ "next" \in DOMAIN config["peripheral_chunks"]
    /\ "tail" \in DOMAIN config["peripheral_chunks"]["next"]
    /\ "count" \notin DOMAIN config["peripheral_chunks"]["next"]["tail"]

(***************************************************************************)
(* C3.  execute never mutates its input: no step changes the input         *)
(* sequence or any input record, and every output record is another object *)
(* than every input record, with the fields and values of one input record *)
(* plus the derived field.                                                 *)
(***************************************************************************)
C3_InputNotMutated ==
    /\ [][/\ input_data' = input_data
          /\ \A n \in 1..Len(input_data) : heap'[input_data[n]] = heap[input_data[n]]]_vars
    /\ [](\A j \in 1..Len(results) :
              /\ \A n \in 1..Len(input_data) : results[j] # input_data[n]
              /\ \E n \in 1..Len(input_data) :
                     EnrichmentOf(OutputRecord(j), InputRecord(n)))

\* a completed call that reordered its records, one of which already had the
\* derived field
C3_Witness ==
    /\ pc = "done"
    /\ Len(input_data) >= 2
    /\ Len(results) = Len(input_data)
    /\ InputRecord(1).doc = "d2"
    /\ InputRecord(1).ord = 10
    /\ InputRecord(2) = PreFormatted
    /\ EnrichmentOf(OutputRecord(1), PreFormatted)
    /\ OutputRecord(1)["text_formatted"] # PreFormatted["text_formatted"]

(***************************************************************************)
(* C4.  The output is a sequence of groups: documents in the order of      *)
(* their first appearance in the input, the records of a document          *)
(* contiguous and in ascending order_key, records of equal order_key in    *)
(* their input order.                                                      *)
(***************************************************************************)
C4_GroupOrder ==
    pc = "done" =>
        /\ Len(results) = Len(input_data)
        /\ \E f \in Bijections(Len(input_data)) :
               /\ \A j \in 1..Len(results) :
                      EnrichmentOf(OutputRecord(j), InputRecord(f[j]))
               /\ \A j, k \in 1..Len(results) :
                      j < k =>
                          LET a == InputRecord(f[j])
                              b == InputRecord(f[k])
                          IN  /\ FirstAppearance(a.doc) <= FirstAppearance(b.doc)
                              /\ a.doc = b.doc => a.ord <= b.ord
                              /\ (a.doc = b.doc /\ a.ord = b.ord) => f[j] < f[k]

\* two documents interleaved in the input, and two distinguishable records of
\* one document with equal order_key
C4_Witness ==
    /\ pc = "done"
    /\ Len(input_data) = 3
    /\ InputRecord(1).doc = "d1"
    /\ InputRecord(2).doc = "d2"
    /\ InputRecord(3).doc = "d1"
    /\ InputRecord(1).ord = InputRecord(3).ord
    /\ InputRecord(1).text # InputRecord(3).text
    /\ EnrichmentOf(OutputRecord(3), InputRecord(2))

(***************************************************************************)
(* C5.  For a valid configuration and N records carrying the configured    *)
(* keys, execute raises nothing and returns exactly N records, each the    *)
(* enrichment of a different input record, with cost 0.0.                  *)
(***************************************************************************)
C5_Cardinality ==
    /\ (/\ ~ViolatesValidatorRules(config)
        /\ \A n \in 1..Len(input_data) : {"doc", "ord", "text"} \subseteq DOMAIN InputRecord(n))
           => error = "none"
    /\ Len(results) <= Len(input_data)
    /\ pc = "done" =>
           /\ Len(results) = Len(input_data)
           /\ cost = 0
           /\ \E f \in Bijections(Len(input_data)) :
                  \A j \in 1..Len(results) :
                      /\ EnrichmentOf(OutputRecord(j), InputRecord(f[j]))
                      /\ OutputRecord(j).doc = InputRecord(f[j]).doc

\* three records of two documents, all returned
C5_Witness ==
    /\ pc = "done"
    /\ Len(input_data) = 3
    /\ Len(results) = 3
    /\ Len(grouped_chunks) = 2
    /\ cost = 0

(***************************************************************************)
(* Vocabulary of the properties of format_chunk_with_context.              *)
(***************************************************************************)
\* number of positions of s at which the non-empty string sub starts
Occurrences(sub, s) ==
    Cardinality({p \in 1..(Len(s) - Len(sub) + 1) :
                     /\ s[p] = sub[1]
                     /\ SubSeq(s, p, p + Len(sub) - 1) = sub})

CharCount(c, s) == Cardinality({p \in 1..Len(s) : s[p] = c})

\* footer, blank line, start marker, raw content, end marker, blank line, header
Wrapped(start_marker, content, end_marker) ==
    PREVIOUS_FOOTER \o NEWLINE \o start_marker \o NEWLINE \o content \o NEWLINE
        \o end_marker \o NEWLINE \o NEXT_HEADER

CurrentContent == args.chunks[args.current_index + 1].text

(***************************************************************************)
(* C7.  As stated: the formatted string contains exactly one occurrence of *)
(* start_marker, the one followed by the raw content and end_marker,       *)
(* between the previous footer and the next header.                        *)
(***************************************************************************)
C7_ExactlyOneStartMarker ==
    pc = "returned" =>
        /\ Occurrences(args.main_chunk_start, formatted_chunk) = 1
        /\ Occurrences(Wrapped(args.main_chunk_start, CurrentContent,
                               args.main_chunk_end), formatted_chunk) >= 1

(***************************************************************************)
(* C7, amended.  The formatted string contains start_marker, the raw       *)
(* content and end_marker on consecutive lines between the previous footer *)
(* and the next header, so start_marker occurs at least once; it occurs    *)
(* exactly once when it has a character that occurs nowhere else in the    *)
(* output.  Chunk contents, context lines and the fixed headers are not    *)
(* escaped and may contain the marker as well.                             *)
(***************************************************************************)
C7_WrappedMainChunk ==
    pc = "returned" =>
        /\ Occurrences(Wrapped(args.main_chunk_start, CurrentContent,
                               args.main_chunk_end), formatted_chunk) >= 1
        /\ Occurrences(args.main_chunk_start, formatted_chunk) >= 1
        /\ (\E p \in 1..Len(args.main_chunk_start) :
                CharCount(args.main_chunk_start[p], formatted_chunk)
                    = CharCount(args.main_chunk_start[p], args.main_chunk_start))
               => Occurrences(args.main_chunk_start, formatted_chunk) = 1

\* a custom marker around the second of three chunks, occurring once
C7_Witness ==
    /\ pc = "returned"
    /\ args.main_chunk_start = <<"S">>
    /\ Len(args.chunks) = 3
    /\ args.current_index = 1
    /\ Occurrences(args.main_chunk_start, formatted_chunk) = 1

(***************************************************************************)
(* C8.  Classification is measured from the current chunk outward in both  *)
(* directions: the neighbor at distance i (0 = adjacent) of total          *)
(* neighbors in its direction is head iff i < head.count, tail iff not     *)
(* head and i >= total - tail.count, middle iff neither and a middle       *)
(* section is configured, skipped otherwise.  Each neighbor that is not    *)
(* skipped is rendered by exactly one chunk line, from its bucket's        *)
(* content key, and a skipped neighbor by none.                            *)
(***************************************************************************)
\* the chunk lines of the rendered neighbors among positions lo..hi of the
\* group, in document order; distance(p) is the distance of position p
ContextLines(lo, hi, total, dconfig, distance(_)) ==
    LET rendered == {p \in lo..hi : Bucket(distance(p), total, dconfig) # "skipped"}
    IN  [n \in 1..Cardinality(rendered) |->
            LET p == NthSlot(rendered, n)
            IN  BucketLine(args.chunks[p], Bucket(distance(p), total, dconfig), dconfig)]

NotPlaceholder(line) == ~IsPlaceholder(line)

C8_ClassificationFromCurrentChunk ==
    pc = "returned" =>
        LET current == args.current_index + 1
            group_size == Len(args.chunks)
            previous == Get(args.peripheral_config, "previous", EmptyDict)
            next == Get(args.peripheral_config, "next", EmptyDict)
            Before(p) == current - 1 - p
            After(p) == p - current - 1
        IN  SelectSeq(combined_parts, NotPlaceholder) =
                <<PREVIOUS_HEADER>>
                    \o ContextLines(1, current - 1, current - 1, previous, Before)
                    \o <<PREVIOUS_FOOTER,
                         MainPart(args.main_chunk_start, CurrentContent,
                                  args.main_chunk_end),
                         NEXT_HEADER>>
                    \o ContextLines(current + 1, group_size, group_size - current,
                                    next, After)
                    \o <<NEXT_FOOTER>>

\* the last of three chunks: the adjacent chunk is the head, rendered from its
\* summary, and the earliest chunk is skipped
C8_Witness ==
    /\ pc = "returned"
    /\ Len(args.chunks) = 3
    /\ args.current_index = 2
    /\ "previous" \in DOMAIN args.peripheral_config
    /\ DOMAIN args.peripheral_config["previous"] = {"head"}
    /\ args.peripheral_config["previous"]["head"]
           = (("count" :> 1) @@ ("content_key" :> "summary"))
    /\ IsPlaceholder(combined_parts[2])
    /\ combined_parts[3] = ChunkLine(args.chunks[2], "ord", "summary", "text")

====
